---------------------------- MODULE Spec2Model ----------------------------
(***************************************************************************)
(* Model of the quiz page, src/pages/Question_Generator.py: the two        *)
(* completion parsers (ask_gemini_for_questions, ask_gemini_to_grade), the *)
(* construction of Question records, and the Streamlit script of the page  *)
(* as a state machine over st.session_state, one action per script rerun.  *)
(*                                                                         *)
(* Text is modelled at two grains.  A completion is a sequence of tokens:  *)
(* the JSON punctuation, "k" (a quoted key with its colon), "v" (a JSON    *)
(* scalar), "w" (whitespace), "f" (a code-fence marker line), "t" (prose), *)
(* and atoms that stand for the text of one JSON object (a question        *)
(* record) or of the members of the grading object.  Question fields that  *)
(* the code inspects (type, options, answer) are sequences of characters.  *)
(***************************************************************************)
EXTENDS Integers, Sequences, FiniteSets, TLC

\* ------------------------------------------------------------------ bounds
\* Longest token body of a completion enumerated for the parsers.
MaxBody == 4
\* Most question records in one upstream array.
MaxQuestions == 2

\* The value of a one-element set: Only({F(x) : x \in {e}}) is F(e) with e
\* evaluated once.
Only(S) == CHOOSE x \in S : TRUE

\* ------------------------------------------------------------- Python None
NoneS == "<None>"
NoneT == <<NoneS>>

\* ------------------------------------------------------------ json values
\* A decoded JSON value: t is "arr", "obj", "sc" (scalar or atom) or "none"
\* (nothing decoded); items are an array's elements or an object's member
\* values in order; a is the scalar's token.
NoValue == [t |-> "none", items |-> <<>>, a |-> ""]
ArrV(items) == [t |-> "arr", items |-> items, a |-> ""]
ObjV(items) == [t |-> "obj", items |-> items, a |-> ""]
ScV(tok) == [t |-> "sc", items |-> <<>>, a |-> tok]

Syntax == {"[", "]", "{", "}", ",", "k", "w", "f", "t"}
IsScalarTok(tok) == tok \notin Syntax

PFail == [ok |-> FALSE, v |-> NoValue, n |-> 0]
POk(v, n) == [ok |-> TRUE, v |-> v, n |-> n]

RECURSIVE SkipWs(_, _)
SkipWs(s, i) == IF i <= Len(s) /\ s[i] = "w" THEN SkipWs(s, i + 1) ELSE i

\* json.loads' scanner on tokens: a value starting at or after position i.
\* Returns the value and the position after it.
RECURSIVE ParseValue(_, _), ParseElems(_, _, _), ParseMembers(_, _, _)
ParseValue(s, i) ==
  LET j == SkipWs(s, i) IN
  IF j > Len(s) THEN PFail
  ELSE IF s[j] = "[" THEN
    LET j2 == SkipWs(s, j + 1) IN
    IF j2 <= Len(s) /\ s[j2] = "]" THEN POk(ArrV(<<>>), j2 + 1)
    ELSE ParseElems(s, j2, <<>>)
  ELSE IF s[j] = "{" THEN
    LET j2 == SkipWs(s, j + 1) IN
    IF j2 <= Len(s) /\ s[j2] = "}" THEN POk(ObjV(<<>>), j2 + 1)
    ELSE ParseMembers(s, j2, <<>>)
  ELSE IF IsScalarTok(s[j]) THEN POk(ScV(s[j]), j + 1)
  ELSE PFail

\* The elements of an array after "[" or after a comma: a value is required,
\* then "," or "]" (a comma directly before "]" is an error in json.loads).
ParseElems(s, i, acc) ==
  Only({
    IF ~r.ok THEN PFail
    ELSE LET j == SkipWs(s, r.n) IN
      IF j > Len(s) THEN PFail
      ELSE IF s[j] = "," THEN ParseElems(s, j + 1, Append(acc, r.v))
      ELSE IF s[j] = "]" THEN POk(ArrV(Append(acc, r.v)), j + 1)
      ELSE PFail
    : r \in {ParseValue(s, i)}})

\* The members of an object after "{" or after a comma: a key, a value, then
\* "," or "}".
ParseMembers(s, i, acc) ==
  LET j0 == SkipWs(s, i) IN
  IF j0 > Len(s) \/ s[j0] # "k" THEN PFail
  ELSE Only({
    IF ~r.ok THEN PFail
    ELSE LET j == SkipWs(s, r.n) IN
      IF j > Len(s) THEN PFail
      ELSE IF s[j] = "," THEN ParseMembers(s, j + 1, Append(acc, r.v))
      ELSE IF s[j] = "}" THEN POk(ObjV(Append(acc, r.v)), j + 1)
      ELSE PFail
    : r \in {ParseValue(s, j0 + 1)}})

\* json.loads(s): one value, then only whitespace to the end.
JsonLoads(s) ==
  Only({
    IF r.ok /\ SkipWs(s, r.n) > Len(s) THEN [ok |-> TRUE, v |-> r.v]
    ELSE [ok |-> FALSE, v |-> NoValue]
    : r \in {ParseValue(s, 1)}})

\* ------------------------------------------------------- string helpers
\* str.strip(): whitespace removed at both ends.
RECURSIVE StripLeft(_), StripRight(_)
StripLeft(s) == IF Len(s) > 0 /\ s[1] = "w" THEN StripLeft(Tail(s)) ELSE s
StripRight(s) ==
  IF Len(s) > 0 /\ s[Len(s)] = "w" THEN StripRight(SubSeq(s, 1, Len(s) - 1))
  ELSE s
Strip(s) == StripRight(StripLeft(s))

\* str.find / str.rfind as positions from 1, with 0 for Python's -1.
Find(s, c) ==
  IF \E i \in 1..Len(s) : s[i] = c
  THEN CHOOSE i \in 1..Len(s) : s[i] = c /\ \A j \in 1..(i - 1) : s[j] # c
  ELSE 0
RFind(s, c) ==
  IF \E i \in 1..Len(s) : s[i] = c
  THEN CHOOSE i \in 1..Len(s) : s[i] = c /\ \A j \in (i + 1)..Len(s) : s[j] # c
  ELSE 0

\* ---------------------------------------------------------- the parsers
\* What a parser returns or raises.  kind "" is a normal return; text is the
\* text the exception holds: the raw completion in the RuntimeError's
\* message, the document json.loads was given in a JSONDecodeError.
Parsed(v) == [ok |-> TRUE, v |-> v, kind |-> "", text |-> <<>>]
Raised(kind, text) == [ok |-> FALSE, v |-> NoValue, kind |-> kind, text |-> text]

\* The try/except of both functions: direct decode, else the slice from the
\* first open to the last close, decoded without a handler around it.
ExtractNoFallback(raw, open, close) ==
  LET direct == JsonLoads(raw) IN
  IF direct.ok THEN Parsed(direct.v) ELSE Raised("RuntimeError", raw)
ExtractJson(raw, open, close) ==
  Only({
    IF direct.ok THEN Parsed(direct.v)
    ELSE LET cleaned == Strip(raw)
             start == Find(cleaned, open)
             end == RFind(cleaned, close)
         IN IF start # 0 /\ end # 0
            THEN Only({IF second.ok THEN Parsed(second.v)
                       ELSE Raised("JSONDecodeError", maybe)
                       : maybe \in {SubSeq(cleaned, start, end)},
                         second \in {JsonLoads(SubSeq(cleaned, start, end))}})
            ELSE Raised("RuntimeError", raw)
    : direct \in {JsonLoads(raw)}})

ParseQuestionsJson(raw) == ExtractJson(raw, "[", "]")
ParseGradingJson(raw) == ExtractJson(raw, "{", "}")

\* ------------------------------------------------- upstream question records
\* Characters of a type field and str.lower() on them.
Lower(c) ==
  CASE c = "M" -> "m" [] c = "C" -> "c" [] c = "Q" -> "q" [] c = "E" -> "e"
    [] OTHER -> c

\* The atoms a completion may hold as array elements.  Each stands for the
\* text of one JSON object; has is the set of keys the object carries.
QAtoms == {"r_mcq", "r_MCQ5", "r_essay", "r_notype", "r_noid"}
RecordOf(a) ==
  CASE a = "r_mcq" ->
         [has |-> {"id", "type", "question", "options", "answer"}, id |-> 1,
          type |-> <<"m", "c", "q">>, question |-> "q_mcq",
          options |-> << <<"x">>, <<"y">> >>, answer |-> <<"x">>]
    [] a = "r_MCQ5" ->
         [has |-> {"id", "type", "question", "options", "answer"}, id |-> 2,
          type |-> <<"M", "C", "Q">>, question |-> "q_MCQ5",
          options |-> << <<"p">>, <<"B", " ">>, <<"r">>, <<"s">>, <<"u">> >>,
          answer |-> <<"B">>]
    [] a = "r_essay" ->
         [has |-> {"id", "type", "question", "answer"}, id |-> 1,
          type |-> <<"E", "s", "s", "a", "y">>, question |-> "q_essay",
          options |-> <<>>, answer |-> <<"x">>]
    [] a = "r_notype" ->
         [has |-> {"id", "question", "options", "answer"}, id |-> 2,
          type |-> <<>>, question |-> "q_notype",
          options |-> <<>>, answer |-> <<"x">>]
    [] OTHER ->
         [has |-> {"type", "question"}, id |-> 0,
          type |-> <<"o", "p", "e", "n">>, question |-> "q_noid",
          options |-> <<>>, answer |-> <<>>]

\* dict.get(key) on a record: the value, or None when the key is missing.
GetType(rec) == IF "type" \in rec.has THEN rec.type ELSE NoneT
GetAnswer(rec) == IF "answer" \in rec.has THEN rec.answer ELSE NoneT
GetOptions(rec) == IF "options" \in rec.has THEN rec.options ELSE <<>>

\* One pass of the loop body: Question(id=int(obj.get("id")), ...).  obj.get
\* exists only on a dict, and int(None) raises.
IsRecord(item) == item.t = "sc" /\ item.a \in QAtoms
CanBuild(item) == IsRecord(item) /\ "id" \in RecordOf(item.a).has
QuestionAppendingAnswer(item) ==
  LET rec == RecordOf(item.a)
      opts == GetOptions(rec)
      ans == GetAnswer(rec)
      full == IF ans \in {opts[i] : i \in 1..Len(opts)} THEN opts
              ELSE Append(opts, ans)
  IN [id |-> rec.id, qtype |-> GetType(rec), question |-> rec.question,
      options |-> SubSeq(full, 1, IF Len(full) < 4 THEN Len(full) ELSE 4),
      correct_answer |-> ans]
Question(item) ==
  LET rec == RecordOf(item.a)
  IN [id |-> rec.id, qtype |-> GetType(rec), question |-> rec.question,
      options |-> GetOptions(rec), correct_answer |-> GetAnswer(rec)]

\* What "for obj in parsed" iterates: a list's elements; a dict's keys, which
\* are strings and have no .get; nothing for an empty dict; a number is not
\* iterable.
Iterable(v) == v.t = "arr" \/ (v.t = "obj" /\ Len(v.items) = 0)

\* The reply of gemini_generate_text: the call raises, or returns text.
Completion(raised, raw) == [raised |-> raised, raw |-> raw]

\* ask_gemini_for_questions: the list of Questions, or the exception.
QOk(qs) == [ok |-> TRUE, questions |-> qs, kind |-> "", text |-> <<>>]
QErr(kind, text) == [ok |-> FALSE, questions |-> <<>>, kind |-> kind, text |-> text]
ask_gemini_for_questions(text, comp) ==
  IF comp.raised THEN QErr("CompletionError", <<>>)
  ELSE Only({
    IF ~p.ok THEN QErr(p.kind, p.text)
    ELSE IF ~Iterable(p.v) THEN QErr("TypeError", <<>>)
    ELSE IF \E i \in 1..Len(p.v.items) : ~CanBuild(p.v.items[i])
      THEN QErr("TypeError", <<>>)
    ELSE QOk([i \in 1..Len(p.v.items) |-> Question(p.v.items[i])])
    : p \in {ParseQuestionsJson(comp.raw)}})


\* ------------------------------------------------------ grading replies
\* The atoms a grading reply may hold: each stands for the members
\* "total_score", "max_score" and "per_question" (the ids it reports on) of
\* the grading object.
GradeAtoms == {"g_1of2", "g_2of2"}
GradeOf(a) ==
  IF a = "g_1of2"
  THEN [total_score |-> 1, max_score |-> 2, per_question |-> <<1, 2>>]
  ELSE [total_score |-> 2, max_score |-> 2, per_question |-> <<1, 2>>]
IsGradeDict(g) ==
  g.t = "obj" /\ Len(g.items) = 1 /\ g.items[1].t = "sc"
    /\ g.items[1].a \in GradeAtoms

\* st.metric("Score", f"{grading.get('total_score')} / {grading.get('max_score')}"):
\* the two numbers shown, -1 for None.
ScoreShownMaxTwice(g) ==
  IF IsGradeDict(g)
  THEN <<GradeOf(g.items[1].a).max_score, GradeOf(g.items[1].a).max_score>>
  ELSE <<-1, -1>>
ScoreShown(g) ==
  IF IsGradeDict(g)
  THEN <<GradeOf(g.items[1].a).total_score, GradeOf(g.items[1].a).max_score>>
  ELSE <<-1, -1>>

\* ------------------------------------------------------ the answer form
IsPrefix(p, s) == Len(p) <= Len(s) /\ \A i \in 1..Len(p) : s[i] = p[i]
LowerStr(s) == [i \in 1..Len(s) |-> Lower(s[i])]
\* q.qtype.lower().startswith("mc"), where the attribute exists
IsMcq(q) == IsPrefix(<<"m", "c">>, LowerStr(q.qtype))

labels == <<"A", "B", "C", "D", "E", "F">>
Ids == {1, 2}
Choices == {0, 1}
\* What the user typed in a text input, by choice.
TypedText(c) == IF c = 0 THEN <<>> ELSE <<"x">>

\* The body of the loop for a multiple-choice question: the options are
\* labelled, shown as <<label, option>>, and the selected one is mapped back
\* through its label.
McqAnswer(q, c) ==
  LET n == Len(q.options)
      opt_map == [l \in {labels[i] : i \in 1..n} |->
                    q.options[CHOOSE i \in 1..n : labels[i] = l]]
      choices_display == [i \in 1..n |-> <<labels[i], q.options[i]>>]
      ans == choices_display[IF c + 1 <= n THEN c + 1 ELSE 1]
      selected_label == ans[1]
  IN opt_map[selected_label]

\* Whether the loop body raises for q: None has no .lower(); labels has six
\* entries; st.radio over no options returns None, which has no .split();
\* a key already used in this run is a DuplicateWidgetID.
BodyRaises(q, seen) ==
  \/ q.qtype = NoneT
  \/ q.id \in seen
  \/ IsMcq(q) /\ (Len(q.options) > Len(labels) \/ Len(q.options) = 0)

\* The loop over st.session_state["questions"] from question i on: the
\* answers dict, the ids whose widgets were shown, and whether it completed.
RECURSIVE RenderFrom(_, _, _, _, _)
RenderFrom(qs, ws, i, seen, acc) ==
  IF i > Len(qs) THEN [ok |-> TRUE, answers |-> acc, ids |-> seen]
  ELSE LET q == qs[i] IN
    IF BodyRaises(q, seen) THEN [ok |-> FALSE, answers |-> <<>>, ids |-> seen]
    ELSE LET a == IF IsMcq(q) THEN McqAnswer(q, ws[q.id]) ELSE TypedText(ws[q.id])
         IN RenderFrom(qs, ws, i + 1, seen \cup {q.id}, (q.id :> a) @@ acc)
RenderAnswers(qs, ws) == RenderFrom(qs, ws, 1, {}, <<>>)

\* ask_gemini_to_grade: whatever the reply decodes to, or the exception.  The
\* text, the questions and the answers go into the prompt only.
ask_gemini_to_grade(text, qs, answers, comp) ==
  IF comp.raised THEN Raised("CompletionError", <<>>)
  ELSE ParseGradingJson(comp.raw)

\* ------------------------------------------------------------- the state
VARIABLES
  uploaded,                 \* the file the st.file_uploader widget holds
  pdf_text,                 \* st.session_state["pdf_text"]
  generated_from_filename,  \* st.session_state["generated_from_filename"]
  questions,                \* st.session_state["questions"]
  grading,                  \* st.session_state["grading"]; NoValue: no such key
  wstate,                   \* the values of the answer widgets, by question id
  answers,                  \* the answers dict the last run built
  rendered,                 \* the buttons the last run showed
  last,                     \* the last run: its trigger, how it ended, and
                            \* the document text it sent to the service
  questions_text,           \* the text the call that returned the stored
                            \* questions was given
  p_raw, p_pc, p_res,       \* a parser applied to one completion on its own
  messages,                 \* Home.py: st.session_state.messages
  chat_pc,                  \* Home.py: where the run handling a message is
  full_response,            \* Home.py: the response accumulated so far
  chunks                    \* Home.py: the chunks the stream has yielded

svars == <<uploaded, pdf_text, generated_from_filename, questions, grading,
           wstate, answers, rendered, last, questions_text>>
pvars == <<p_raw, p_pc, p_res>>
cvars == <<messages, chat_pc, full_response, chunks>>
vars == <<uploaded, pdf_text, generated_from_filename, questions, grading,
          wstate, answers, rendered, last, questions_text, p_raw, p_pc, p_res,
          messages, chat_pc, full_response, chunks>>

\* questions is None or a list
QNone == [isNone |-> TRUE, list |-> <<>>]
QSome(l) == [isNone |-> FALSE, list |-> l]
\* Python truth of the session values
Truthy(q) == ~q.isNone /\ Len(q.list) > 0
GTruthy(g) == g.t = "sc" \/ (g.t \in {"arr", "obj"} /\ Len(g.items) > 0)

\* -------------------------------------------------------------- the files
File(name, text, ok) == [present |-> TRUE, name |-> name, text |-> text, ok |-> ok]
NoFile == [present |-> FALSE, name |-> NoneS, text |-> NoneS, ok |-> FALSE]
Files ==
  {File("a.pdf", "t1", TRUE), File("a.pdf", "t2", TRUE),
   File("b.pdf", "t1", TRUE), File("b.pdf", "", FALSE)}
\* extract_text_from_pdf: the text of the pages, or fitz raises
extract_text_from_pdf(f) == [ok |-> f.ok, text |-> f.text]

\* ------------------------------------------------------------ completions
RECURSIVE Join(_)
Join(s) ==
  IF Len(s) = 0 THEN <<>>
  ELSE IF Len(s) = 1 THEN <<s[1]>>
  ELSE <<s[1], ",">> \o Join(Tail(s))
ArrayRaw(s) == <<"[">> \o Join(s) \o <<"]">>
AtomSeqs == UNION {[1..k -> QAtoms \ {"r_noid"}] : k \in 0..MaxQuestions}
\* What the service may return to the question prompt: every array of up to
\* MaxQuestions records that carry an id; arrays with a record that carries
\* none, or with an element that is no object; and completions that are not
\* a plain array: prose, a fenced array, a trailing comma, a number, an
\* empty object.
GenRaws ==
  {ArrayRaw(s) : s \in AtomSeqs}
    \cup {<<"[", "r_noid", "]">>, <<"[", "r_mcq", ",", "r_noid", "]">>,
          <<"[", "v", "]">>,
          <<"t">>, <<"[", "t", "]">>, <<"f", "[", "r_mcq", "]", "f">>,
          <<"[", "r_mcq", ",", "]">>, <<"v">>, <<"{", "}">>}
GenComps == {Completion(TRUE, <<>>)} \cup {Completion(FALSE, r) : r \in GenRaws}
\* What the service may return to the grading prompt.
GradeRaws ==
  {<<"{", "k", g, "}">> : g \in GradeAtoms}
    \cup {<<"f", "{", "k", "g_1of2", "}", "f">>, <<"t">>, <<"{", "t", "}">>,
          <<"{", "}">>, <<"v">>}
GradeComps == {Completion(TRUE, <<>>)} \cup {Completion(FALSE, r) : r \in GradeRaws}

\* ask_gemini_for_questions on each completion the service may return,
\* evaluated once: the document text goes into the prompt only, so the result
\* is a function of the completion.
QuestionsReply == [c \in GenComps |-> ask_gemini_for_questions(NoneS, c)]

\* ------------------------------------------------------ one run of the script
NoComp == Completion(TRUE, <<>>)
QById(q, i) ==
  IF \E k \in 1..Len(q.list) : q.list[k].id = i
  THEN <<q.list[CHOOSE k \in 1..Len(q.list) : q.list[k].id = i]>>
  ELSE <<>>

\* Lines 227-258, the block under "if uploaded_file is not None", for the
\* trigger op (the button that reads True in this run, if any), the uploader
\* holding up and the completion comp answering the call it may make.
\* session_state is written as the block goes; st.stop() ends the run.
UploadBlockClearingFirst(op, up, ext, gen) ==
  LET newdoc == generated_from_filename # up.name
      q1 == IF newdoc \/ op = "generate" THEN QNone ELSE questions
      q2 == IF op = "generate" /\ gen.ok THEN QSome(gen.questions) ELSE q1
      q3 == IF Truthy(q2) /\ op = "clear" THEN QNone ELSE q2
  IN [stopped |-> FALSE, pdf_text |-> ext.text,
      fname |-> IF newdoc THEN up.name ELSE generated_from_filename,
      questions |-> q3,
      failed |-> op = "generate" /\ ~gen.ok,
      asked |-> IF op = "generate" THEN ext.text ELSE NoneS,
      generated |-> op = "generate" /\ gen.ok,
      rendered |-> IF Truthy(q2) THEN {"generate", "clear"} ELSE {"generate"}]
UploadBlockKeepingText(op, up, ext, gen) ==
  LET newdoc == generated_from_filename # up.name
      q1 == IF newdoc THEN QNone ELSE questions
      q2 == IF op = "generate" /\ gen.ok THEN QSome(gen.questions) ELSE q1
      q3 == IF Truthy(q2) /\ op = "clear" THEN QNone ELSE q2
  IN [stopped |-> FALSE, pdf_text |-> IF newdoc THEN ext.text ELSE pdf_text,
      fname |-> IF newdoc THEN up.name ELSE generated_from_filename,
      questions |-> q3,
      failed |-> op = "generate" /\ ~gen.ok,
      asked |-> IF op = "generate" THEN ext.text ELSE NoneS,
      generated |-> op = "generate" /\ gen.ok,
      rendered |-> IF Truthy(q2) THEN {"generate", "clear"} ELSE {"generate"}]
UploadBlockWith(op, up, ext, gen) ==
  LET newdoc == generated_from_filename # up.name
      q1 == IF newdoc THEN QNone ELSE questions
      q2 == IF op = "generate" /\ gen.ok THEN QSome(gen.questions) ELSE q1
      q3 == IF Truthy(q2) /\ op = "clear" THEN QNone ELSE q2
  IN [stopped |-> FALSE, pdf_text |-> ext.text,
      fname |-> IF newdoc THEN up.name ELSE generated_from_filename,
      questions |-> q3,
      failed |-> op = "generate" /\ ~gen.ok,
      asked |-> IF op = "generate" THEN ext.text ELSE NoneS,
      generated |-> op = "generate" /\ gen.ok,
      rendered |-> IF Truthy(q2) THEN {"generate", "clear"} ELSE {"generate"}]
UploadBlock(op, up, comp) ==
  IF ~up.present
  THEN [stopped |-> FALSE, pdf_text |-> pdf_text,
        fname |-> generated_from_filename, questions |-> questions,
        failed |-> FALSE, asked |-> NoneS, generated |-> FALSE,
        rendered |-> {}]
  ELSE Only({
    IF ~ext.ok
    THEN [stopped |-> TRUE, pdf_text |-> pdf_text,
          fname |-> generated_from_filename, questions |-> questions,
          failed |-> TRUE, asked |-> NoneS, generated |-> FALSE,
          rendered |-> {}]
    ELSE Only({UploadBlockWith(op, up, ext, gen) :
                 gen \in {IF op = "generate"
                          THEN QuestionsReply[comp]
                          ELSE QOk(<<>>)}})
    : ext \in {extract_text_from_pdf(up)}})

\* Lines 261-278: the form, when there are questions.
AnswerForm(q, ws) ==
  IF Truthy(q) THEN RenderAnswers(q.list, ws)
  ELSE [ok |-> TRUE, answers |-> <<>>, ids |-> {}]

\* Lines 280-326 after the block b and the form: evaluation, the results,
\* the export.  An uncaught exception ends the run where it is raised.
AfterFormDroppingQuestions(op, b, form, grade) ==
  LET submitShown == Truthy(b.questions) /\ form.ok
      submitRuns == submitShown /\ op = "submit"
      g1 == IF submitRuns /\ grade.ok THEN grade.v ELSE grading
      resultsShown == form.ok /\ GTruthy(g1)
      saveShown == resultsShown /\ g1.t = "obj"
  IN [pdf_text |-> b.pdf_text, fname |-> b.fname,
      questions |-> IF submitRuns /\ grade.ok THEN QNone ELSE b.questions,
      grading |-> g1, answers |-> form.answers, ids |-> form.ids,
      generated |-> b.generated,
      sent |-> IF submitRuns THEN b.pdf_text ELSE b.asked,
      rendered |-> b.rendered
                     \cup (IF submitShown THEN {"submit"} ELSE {})
                     \cup (IF saveShown THEN {"save"} ELSE {}),
      result |-> IF b.failed \/ (submitRuns /\ ~grade.ok) THEN "failed" ELSE "ok",
      crashed |-> ~form.ok \/ (resultsShown /\ ~saveShown)]
AfterForm(op, b, form, grade) ==
  LET submitShown == Truthy(b.questions) /\ form.ok
      submitRuns == submitShown /\ op = "submit"
      g1 == IF submitRuns /\ grade.ok THEN grade.v ELSE grading
      resultsShown == form.ok /\ GTruthy(g1)
      resultsCrashed == resultsShown /\ g1.t # "obj"
      saveShown == resultsShown /\ ~resultsCrashed
      saveCrashed == saveShown /\ op = "save" /\ b.questions.isNone
                       /\ IsGradeDict(g1)
                       /\ Len(GradeOf(g1.items[1].a).per_question) > 0
  IN [pdf_text |-> b.pdf_text, fname |-> b.fname, questions |-> b.questions,
      grading |-> g1, answers |-> form.answers, ids |-> form.ids,
      generated |-> b.generated,
      sent |-> IF submitRuns THEN b.pdf_text ELSE b.asked,
      rendered |-> b.rendered
                     \cup (IF submitShown THEN {"submit"} ELSE {})
                     \cup (IF saveShown THEN {"save"} ELSE {}),
      result |-> IF b.failed \/ (submitRuns /\ ~grade.ok) THEN "failed" ELSE "ok",
      crashed |-> ~form.ok \/ resultsCrashed \/ saveCrashed]

\* The values the answer widgets of this run start from: a widget keeps its
\* value from the run before while it is the widget of the same question,
\* and a new widget has its default.
WidgetValues(q, ws) ==
  [i \in Ids |-> IF QById(q, i) = QById(questions, i) THEN ws[i] ELSE 0]

\* The script from its first line to its last, with the widget values ws.
Script(op, up, comp, ws) ==
  Only({
    IF b.stopped
    THEN [pdf_text |-> b.pdf_text, fname |-> b.fname, questions |-> b.questions,
          grading |-> grading, answers |-> <<>>, ids |-> {},
          generated |-> FALSE, sent |-> NoneS, rendered |-> {},
          result |-> "extract_failed", crashed |-> FALSE]
    ELSE Only({
      Only({AfterForm(op, b, form, grade) :
              grade \in {IF Truthy(b.questions) /\ form.ok /\ op = "submit"
                         THEN ask_gemini_to_grade(b.pdf_text, b.questions.list,
                                                  form.answers, comp)
                         ELSE Parsed(NoValue)}})
      : form \in {AnswerForm(b.questions, WidgetValues(b.questions, ws))}})
    : b \in {UploadBlock(op, up, comp)}})

\* A rerun of the script and what it leaves behind.  The value of a widget
\* that the run did not show is dropped.
Rerun(op, up, comp, ws) ==
  \E s \in {Script(op, up, comp, ws)} :
  /\ uploaded' = up
  /\ pdf_text' = s.pdf_text
  /\ generated_from_filename' = s.fname
  /\ questions' = s.questions
  /\ grading' = s.grading
  /\ answers' = s.answers
  /\ rendered' = s.rendered
  /\ wstate' = [i \in Ids |->
                  IF i \in s.ids THEN WidgetValues(s.questions, ws)[i] ELSE 0]
  /\ questions_text' = IF s.generated THEN s.sent
                        ELSE IF s.questions.isNone THEN NoneS
                        ELSE questions_text
  /\ last' = [op |-> op, result |-> s.result, crashed |-> s.crashed,
              sent |-> s.sent]
  /\ UNCHANGED <<pvars, cvars>>

\* ------------------------------------------------------- the chat page
\* Home.py, lines 79-108.
MaxTurns == 3
MaxChunks == 2
\* what the user may type, and the text a chunk may carry ("" among them)
UserMsgs == {<<"p">>, <<"q">>}
ChunkTexts == {<<>>, <<"a">>, <<"b">>}

\* lines 79-80: the history starts empty; no run is handling a message
ChatStart ==
  /\ messages = <<>>
  /\ chat_pc = "idle"
  /\ full_response = <<>>
  /\ chunks = 0

\* ------------------------------------------------------------ the actions
\* The user puts a file into the uploader.
Upload(f) ==
  /\ f # uploaded
  /\ Rerun("upload", f, NoComp, wstate)

\* The user removes the file from the uploader.
RemoveFile ==
  /\ uploaded.present
  /\ Rerun("remove", NoFile, NoComp, wstate)

\* "Force regenerate questions (clears previous)": the button's value is
\* assigned to regenerate and never read.
ClickRegenerate == Rerun("regenerate", uploaded, NoComp, wstate)

ClickGenerate(comp) ==
  /\ "generate" \in rendered
  /\ Rerun("generate", uploaded, comp, wstate)

ClickClear ==
  /\ "clear" \in rendered
  /\ Rerun("clear", uploaded, NoComp, wstate)

\* The user changes the answer widget of question i.
EditAnswer(i, c) ==
  /\ i \in DOMAIN answers
  /\ c # wstate[i]
  /\ \A k \in 1..Len(questions.list) :
       (questions.list[k].id = i /\ IsMcq(questions.list[k]))
         => c < Len(questions.list[k].options)
  /\ Rerun("edit", uploaded, NoComp, [wstate EXCEPT ![i] = c])

ClickSubmit(comp) ==
  /\ "submit" \in rendered
  /\ Rerun("submit", uploaded, comp, wstate)

ClickSave ==
  /\ "save" \in rendered
  /\ Rerun("save", uploaded, NoComp, wstate)

Init ==
  /\ uploaded = NoFile
  /\ pdf_text = NoneS
  /\ generated_from_filename = NoneS
  /\ questions = QNone
  /\ grading = NoValue
  /\ wstate = [i \in Ids |-> 0]
  /\ answers = <<>>
  /\ rendered = {}
  /\ last = [op |-> "init", result |-> "ok", crashed |-> FALSE, sent |-> NoneS]
  /\ questions_text = NoneS
  /\ p_raw = <<>>
  /\ p_pc = "idle"
  /\ p_res = Parsed(NoValue)
  /\ ChatStart

Next ==
  \/ \E f \in Files : Upload(f)
  \/ RemoveFile
  \/ ClickRegenerate
  \/ \E comp \in GenComps : ClickGenerate(comp)
  \/ ClickClear
  \/ \E i \in Ids, c \in Choices : EditAnswer(i, c)
  \/ \E comp \in GradeComps : ClickSubmit(comp)
  \/ ClickSave

Spec == Init /\ [][Next]_vars

\* ------------------------------------------- the parsers on their own
\* Completions for the parsers: every body of up to MaxBody tokens, bare or
\* behind a fence, prose or whitespace, and before a fence or whitespace.
CoreTokens == {"[", "]", "{", "}", ",", "k", "v"}
Bodies == UNION {[1..n -> CoreTokens] : n \in 0..MaxBody}
Prefixes == {<<>>, <<"f">>, <<"t">>, <<"w">>}
Suffixes == {<<>>, <<"f">>, <<"w">>}
ParseRaws == {pre \o b \o suf : pre \in Prefixes, b \in Bodies, suf \in Suffixes}

InitParse ==
  /\ uploaded = NoFile
  /\ pdf_text = NoneS
  /\ generated_from_filename = NoneS
  /\ questions = QNone
  /\ grading = NoValue
  /\ wstate = [i \in Ids |-> 0]
  /\ answers = <<>>
  /\ rendered = {}
  /\ last = [op |-> "init", result |-> "ok", crashed |-> FALSE, sent |-> NoneS]
  /\ questions_text = NoneS
  /\ p_raw \in ParseRaws
  /\ p_pc = "raw"
  /\ p_res = Parsed(NoValue)
  /\ ChatStart

\* lines 104-116 applied to p_raw
RunQuestionParser ==
  /\ p_pc = "raw"
  /\ p_res' = ParseQuestionsJson(p_raw)
  /\ p_pc' = "questions"
  /\ UNCHANGED <<p_raw, svars, cvars>>

\* lines 194-204 applied to p_raw
RunGradingParser ==
  /\ p_pc = "raw"
  /\ p_res' = ParseGradingJson(p_raw)
  /\ p_pc' = "grading"
  /\ UNCHANGED <<p_raw, svars, cvars>>

NextParse == RunQuestionParser \/ RunGradingParser

SpecParse == InitParse /\ [][NextParse]_vars

\* ------------------------------------------- the chat page: its actions
Turns == Cardinality({i \in 1..Len(messages) : messages[i].role = "user"})

\* line 108, which ends the run
AppendAssistant ==
  /\ messages' = Append(messages, [role |-> "assistant", content |-> full_response])
  /\ chat_pc' = "idle"
  /\ full_response' = <<>>
  /\ chunks' = 0

\* lines 88-95: the user sends user_msg; the run appends it and starts the
\* assistant's turn with an empty response.
ChatInput(user_msg) ==
  /\ chat_pc = "idle"
  /\ Turns < MaxTurns
  /\ messages' = Append(messages, [role |-> "user", content |-> user_msg])
  /\ full_response' = <<>>
  /\ chunks' = 0
  /\ chat_pc' = "call"
  /\ UNCHANGED <<svars, pvars>>

\* line 97: stream_gemini_response returns the stream
StreamOpens ==
  /\ chat_pc = "call"
  /\ chat_pc' = "stream"
  /\ UNCHANGED <<messages, full_response, chunks, svars, pvars>>

\* line 97 raises: lines 104-105 catch it, line 108 appends the empty response
StreamCallRaises ==
  /\ chat_pc = "call"
  /\ AppendAssistant
  /\ UNCHANGED <<svars, pvars>>

\* lines 98-101: one chunk; its text is added when it is not empty
Chunk(text) ==
  /\ chat_pc = "stream"
  /\ chunks < MaxChunks
  /\ full_response' = IF Len(text) > 0 THEN full_response \o text ELSE full_response
  /\ chunks' = chunks + 1
  /\ UNCHANGED <<messages, chat_pc, svars, pvars>>

\* the iteration, or chunk.text, raises: lines 104-105, then line 108 appends
\* what was accumulated
StreamRaises ==
  /\ chat_pc = "stream"
  /\ AppendAssistant
  /\ UNCHANGED <<svars, pvars>>

\* the stream is exhausted: line 102, then line 108
StreamEnds ==
  /\ chat_pc = "stream"
  /\ AppendAssistant
  /\ UNCHANGED <<svars, pvars>>

\* The user interacts with the app (a new message, another page, Stop) while
\* the run is between line 89 and line 108: the runner stops the run at its
\* next st.* call by raising a script-control exception, which derives from
\* BaseException and passes "except Exception"; line 108 is not reached.
Interrupted ==
  /\ chat_pc \in {"call", "stream"}
  /\ chat_pc' = "idle"
  /\ full_response' = <<>>
  /\ chunks' = 0
  /\ UNCHANGED <<messages, svars, pvars>>

InitChat == Init

NextChat ==
  \/ \E user_msg \in UserMsgs : ChatInput(user_msg)
  \/ StreamOpens
  \/ StreamCallRaises
  \/ \E text \in ChunkTexts : Chunk(text)
  \/ StreamRaises
  \/ StreamEnds
  \/ Interrupted

SpecChat == InitChat /\ [][NextChat]_vars

\* =================================================================== claims

\* C1: whenever a document whose filename differs from the stored
\* generated_from_filename is uploaded (and its text is extracted), the
\* session afterwards holds no question set, no collected answers and no
\* grading report.
C1_NewUploadClearsAll ==
  [][(last'.op = "upload" /\ last'.result = "ok"
        /\ uploaded'.name # generated_from_filename)
       => (questions'.isNone /\ answers' = <<>> /\ grading' = NoValue)]_vars

\* C2: a failing action (text extraction, Generate Questions, Submit answers
\* for evaluation) leaves pdf_text, questions, generated_from_filename and
\* grading exactly as they were, and the session goes on: the failed button
\* is shown again.
C2_FailureLeavesStateUntouched ==
  [][(last'.result \in {"failed", "extract_failed"})
       => /\ pdf_text' = pdf_text
          /\ questions' = questions
          /\ generated_from_filename' = generated_from_filename
          /\ grading' = grading
          /\ (last'.result = "failed" /\ last'.op = "generate")
               => "generate" \in rendered'
          /\ (last'.result = "failed" /\ last'.op = "submit")
               => "submit" \in rendered']_vars
\* a Generate Questions that failed with a question set and a report stored
C2_Witness ==
  /\ last.op = "generate" /\ last.result = "failed"
  /\ Truthy(questions) /\ GTruthy(grading)

\* C3: in the state reached after a run in which "Force regenerate questions
\* (clears previous)" was pressed, questions is None and no answers are held.
\* Stated in its weakest reading: no question is left (None or an empty list).
C3_RegenerateClears ==
  (last.op = "regenerate" /\ last.result = "ok")
    => (~Truthy(questions) /\ answers = <<>>)

\* C4: a successful evaluate stores a grading report and leaves the question
\* set, the document text, the source filename and the collected answers
\* unchanged; the questions stay available for a further evaluate.
C4_EvaluateKeepsQuestionsAndAnswers ==
  [][(last'.op = "submit" /\ last'.result = "ok")
       => /\ grading' # NoValue
          /\ questions' = questions
          /\ pdf_text' = pdf_text
          /\ generated_from_filename' = generated_from_filename
          /\ answers' = answers
          /\ wstate' = wstate
          /\ "submit" \in rendered']_vars
\* an evaluate that succeeded over answers the user had changed
C4_Witness ==
  /\ last.op = "submit" /\ last.result = "ok"
  /\ GTruthy(grading) /\ Truthy(questions)
  /\ \E i \in DOMAIN answers : wstate[i] # 0

\* C5 (as claimed): every stored multiple-choice question has its expected
\* answer among its options and at most 4 options.
C5_McqAnswerAmongAtMostFourOptions ==
  \A i \in 1..Len(questions.list) :
    LET q == questions.list[i] IN
    IsMcq(q) =>
      /\ q.correct_answer \in {q.options[k] : k \in 1..Len(q.options)}
      /\ Len(q.options) <= 4
\* C5 (amended): every stored question carries the options and the answer of
\* its upstream record as they came (no options: the empty list), so the
\* answer is among the options, and the options are at most 4, exactly when
\* the upstream record has it so.
UpstreamOf(q) == CHOOSE a \in QAtoms : RecordOf(a).question = q.question
C5_QuestionsStoredAsReceived ==
  \A i \in 1..Len(questions.list) :
    LET q == questions.list[i]
        rec == RecordOf(UpstreamOf(q))
        upOptions == IF "options" \in rec.has THEN rec.options ELSE <<>>
    IN /\ \E a \in QAtoms : RecordOf(a).question = q.question
       /\ q.options = upOptions
       /\ "answer" \in rec.has => q.correct_answer = rec.answer
       /\ Len(q.options) <= 4 <=> Len(upOptions) <= 4
       /\ (q.correct_answer \in {q.options[k] : k \in 1..Len(q.options)})
            <=> ("answer" \in rec.has
                   /\ rec.answer \in {upOptions[k] : k \in 1..Len(upOptions)})
\* a stored multiple-choice question with 5 options, none of them its answer
C5_Witness ==
  \E i \in 1..Len(questions.list) :
    LET q == questions.list[i] IN
    /\ IsMcq(q)
    /\ Len(q.options) > 4
    /\ q.correct_answer \notin {q.options[k] : k \in 1..Len(q.options)}

\* C6: the questions of the stored set have pairwise distinct ids, and the
\* answers dict built for evaluation has one entry per question.
C6_DistinctIds ==
  /\ \A i, j \in 1..Len(questions.list) :
       i # j => questions.list[i].id # questions.list[j].id
  /\ "submit" \in rendered
       => Cardinality(DOMAIN answers) = Len(questions.list)

\* C7: when neither the direct decode nor the decode of the slice from the
\* first opening to the last closing bracket succeeds, the parser fails with
\* an error that carries the raw completion.  Stated for a completion with no
\* bracket at all and for one with brackets around undecodable text.
BracketSlice(raw, open, close) == SubSeq(raw, Find(raw, open), RFind(raw, close))
Undecodable(raw, open, close) ==
  /\ ~JsonLoads(raw).ok
  /\ \/ Find(raw, open) = 0 /\ RFind(raw, close) = 0
     \/ /\ 0 < Find(raw, open) /\ Find(raw, open) < RFind(raw, close)
        /\ ~JsonLoads(BracketSlice(raw, open, close)).ok
C7_FailureCarriesRaw ==
  /\ (p_pc = "questions" /\ Undecodable(p_raw, "[", "]"))
       => (~p_res.ok /\ p_res.text = p_raw)
  /\ (p_pc = "grading" /\ Undecodable(p_raw, "{", "}"))
       => (~p_res.ok /\ p_res.text = p_raw)

\* C8 (as claimed): valid JSON, possibly inside code fences and possibly with
\* one trailing comma before a closing bracket, parses to the decode of the
\* fence-stripped, comma-stripped text.
RECURSIVE StripFences(_)
StripFences(s) ==
  IF Len(s) > 0 /\ s[1] \in {"f", "w"} THEN StripFences(Tail(s))
  ELSE IF Len(s) > 0 /\ s[Len(s)] \in {"f", "w"}
    THEN StripFences(SubSeq(s, 1, Len(s) - 1))
  ELSE s
TrailingCommas(s) ==
  {i \in 1..(Len(s) - 1) : s[i] = "," /\ s[i + 1] \in {"]", "}"}}
StripCommas(s) ==
  LET keep == (1..Len(s)) \ TrailingCommas(s)
      Nth(n) == CHOOSE i \in keep : Cardinality({j \in keep : j < i}) = n - 1
  IN [n \in 1..Cardinality(keep) |-> s[Nth(n)]]
Repaired(raw) == StripCommas(StripFences(raw))
Repairable(raw) ==
  Cardinality(TrailingCommas(raw)) <= 1 /\ JsonLoads(Repaired(raw)).ok
C8_RepairsFencesAndTrailingComma ==
  (p_pc \in {"questions", "grading"} /\ Repairable(p_raw))
    => (p_res.ok /\ p_res.v = JsonLoads(Repaired(p_raw)).v)
\* C8 (amended): valid JSON parses to its direct decode; a valid JSON array
\* (question parser) or object (grading parser) inside code fences parses to
\* the decode of the fence-stripped text.  Trailing commas are not repaired.
Fenced(raw, kind) ==
  JsonLoads(StripFences(raw)).ok /\ JsonLoads(StripFences(raw)).v.t = kind
C8_DecodesValidAndFenced ==
  /\ (p_pc \in {"questions", "grading"} /\ JsonLoads(p_raw).ok)
       => (p_res.ok /\ p_res.v = JsonLoads(p_raw).v)
  /\ (p_pc = "questions" /\ Fenced(p_raw, "arr"))
       => (p_res.ok /\ p_res.v = JsonLoads(StripFences(p_raw)).v)
  /\ (p_pc = "grading" /\ Fenced(p_raw, "obj"))
       => (p_res.ok /\ p_res.v = JsonLoads(StripFences(p_raw)).v)
\* a fenced, non-empty array that the question parser decoded
C8_Witness ==
  /\ p_pc = "questions" /\ p_res.ok
  /\ Len(p_raw) > 0 /\ p_raw[1] = "f" /\ p_raw[Len(p_raw)] = "f"
  /\ p_res.v.t = "arr" /\ Len(p_res.v.items) > 0

\* C9 (as claimed): after an evaluate the score shown is the number of
\* multiple-choice questions whose trimmed answer equals the trimmed expected
\* answer, over the number of multiple-choice questions.
RECURSIVE TrimStr(_)
TrimStr(s) ==
  IF Len(s) > 0 /\ s[1] = " " THEN TrimStr(Tail(s))
  ELSE IF Len(s) > 0 /\ s[Len(s)] = " " THEN TrimStr(SubSeq(s, 1, Len(s) - 1))
  ELSE s
McqIndexes(qs) == {i \in 1..Len(qs) : IsMcq(qs[i])}
LocalCorrect(qs, ans) ==
  Cardinality({i \in McqIndexes(qs) :
                 /\ qs[i].id \in DOMAIN ans
                 /\ TrimStr(ans[qs[i].id]) = TrimStr(qs[i].correct_answer)})
C9_ScoreIsLocalMcqCount ==
  (last.op = "submit" /\ last.result = "ok" /\ "save" \in rendered)
    => ScoreShown(grading)
         = <<LocalCorrect(questions.list, answers),
             Cardinality(McqIndexes(questions.list))>>
\* C9 (amended): after a successful evaluate the score shown is the
\* total_score over the max_score of the completion service's reply,
\* whatever the questions and the answers are; nothing is scored locally.
ReplyScore(raw) ==
  LET g == CHOOSE a \in GradeAtoms : \E i \in 1..Len(raw) : raw[i] = a
  IN <<GradeOf(g).total_score, GradeOf(g).max_score>>
C9_ScoreIsTheReplys ==
  [][(last'.op = "submit" /\ last'.result = "ok" /\ "save" \in rendered')
       => \A comp \in GradeComps :
            ClickSubmit(comp) => ScoreShown(grading') = ReplyScore(comp.raw)]_vars
\* an evaluate whose shown score differs from the local count
C9_Witness ==
  /\ last.op = "submit" /\ last.result = "ok" /\ "save" \in rendered
  /\ ScoreShown(grading)
       # <<LocalCorrect(questions.list, answers),
            Cardinality(McqIndexes(questions.list))>>

\* C10: every question whose type is not recognised as multiple-choice, an
\* unknown string or a missing type among them, is treated as open-form
\* without an error: for a stored question set (of distinct ids, shown by a
\* run that reached the form) the form completes and holds one free-text
\* answer for each such question.
NotRecognisedAsMcq(q) == q.qtype = NoneT \/ ~IsPrefix(<<"m", "c">>, LowerStr(q.qtype))
C10_UnrecognisedTypeIsOpenForm ==
  (/\ Truthy(questions)
   /\ last.result # "extract_failed"
   /\ \A i, j \in 1..Len(questions.list) :
        i # j => questions.list[i].id # questions.list[j].id
   /\ \E i \in 1..Len(questions.list) : NotRecognisedAsMcq(questions.list[i]))
    => /\ "submit" \in rendered
       /\ \A i \in 1..Len(questions.list) :
            NotRecognisedAsMcq(questions.list[i])
              => /\ questions.list[i].id \in DOMAIN answers
                 /\ answers[questions.list[i].id] \in {TypedText(c) : c \in Choices}

C12_HistoryAlternates ==
  chat_pc = "idle" =>
    /\ Len(messages) % 2 = 0
    /\ \A i \in 1..Len(messages) :
         messages[i].role = IF i % 2 = 1 THEN "user" ELSE "assistant"

=============================================================================
